---- MODULE Spec2Model ----
(***************************************************************************)
(* The Pumpkin connection reactor (pumpkin/src/main.rs): the readiness     *)
(* loop, the clients/players registry with teardown and promotion, and the *)
(* per-connection keep-alive monitor task.                                 *)
(*                                                                         *)
(* Time is counted in whole seconds (the monitor's interval period).  An   *)
(* Instant is held as its age, the seconds elapsed since it: Instant::now()*)
(* is 0, a.duration_since(b) is b - a, an instant still to come is         *)
(* negative, and one second passing adds one to every age.  Ages stop      *)
(* growing at MaxAge, past the only duration the program compares with.    *)
(* A task that is ready to run (its interval deadline reached, or a value  *)
(* waiting in its reply channel) runs before the second is over.           *)
(***************************************************************************)
EXTENDS Integers, Sequences, FiniteSets, TLC

\* ------------------------------------------------------------------ constants
\* const SERVER: Token = Token(0)
SERVER == 0
\* Duration::from_secs(15): the keep-alive deadline
KeepAliveTimeout == 15
\* tokio::time::interval(Duration::from_secs(1))
Period == 1

\* ------------------------------------------------------------------ bounds
\* pieces of a file name
MaxName == 3
\* entries of the plugin directory
MaxEntries == 2
\* connections accepted in Spec
MaxConns == 2
\* challenge ids are drawn from 0 .. MaxId
MaxId == 1
\* values the reply channel holds in the model (1024 in the program)
MaxChannel == 1
\* interval ticks that can be overdue at once (missed ticks fire in a burst)
MaxLag == 0

Ids == 0 .. MaxId
\* ConnectionState: the reactor only tells Play from the rest
ConnectionStates == {"HandShake", "Play"}

\* ages saturate here
MaxAge == KeepAliveTimeout + 1
\* no such instant yet
Never == MaxAge + 1

VARIABLES
    pending,     \* connections waiting in the listener's backlog
    unique_id,   \* the token counter
    registered,  \* tokens registered with poll.registry()
    clients,     \* keys of the clients map
    players,     \* keys of the players map
    conn,        \* token -> the shared fields of its Arc<Client>
    mon,         \* token -> the position and locals of its keep-alive task
    rpc,         \* position of the reactor loop
    cur,         \* token whose promotion is under way (SERVER when none)
    drained,     \* connections accepted since the accept loop was entered
    boot,        \* the PluginLoader and the plugin directory it scans
    hist         \* token -> history of the connection (for the properties)

vars == <<pending, unique_id, registered, clients, players, conn, mon,
          rpc, cur, drained, boot, hist>>

Accepted == DOMAIN conn

\* ------------------------------------------------------------------ plugin directory
Dot == "."

\* extension == "so" || extension == "dll" || extension == "dylib"
\*     || extension == "plugin"
Recognized == {"so", "dll", "dylib", "plugin"}

\* A file name is a sequence of pieces: a dot, or a word without dots.
Pieces == Recognized \cup {Dot, "txt"}

FileNames == UNION {[1 .. n -> Pieces] : n \in 1 .. MaxName}

\* fs::read_dir yields every name in the directory but "." and ".."
EntryNames == FileNames \ {<<Dot>>, <<Dot, Dot>>}

\* the directories of up to n entries with names out of a set, in the order
\* read_dir yields them
Directories(names, n) ==
    {d \in UNION {[1 .. k -> names] : k \in 0 .. n} :
        \A i, j \in 1 .. Len(d) : i # j => d[i] # d[j]}

\* position of the last dot of a name, 0 when it has none
LastDot(name) ==
    LET dots == {i \in 1 .. Len(name) : name[i] = Dot}
    IN  IF dots = {} THEN 0 ELSE CHOOSE i \in dots : \A j \in dots : j <= i

\* path.extension(): what follows the last dot of the file name, when the
\* name has a dot with something before it; the empty set is None
extension(name) ==
    LET d == LastDot(name)
    IN  IF name = <<Dot, Dot>> \/ d <= 1 THEN {}
        ELSE {SubSeq(name, d + 1, Len(name))}

\* a scan that hands every entry to the loader
is_valid_always(path) == TRUE

\* fn is_valid_plugin(&self, path: &PathBuf) -> bool
is_valid_plugin(path) ==
    \E e \in extension(path) : \E r \in Recognized : e = <<r>>

\* the loader before load_plugins_from_directory("./plugins") is called
\* PluginLoader::new(): plugins: Vec::new()
NewLoader(exists, entries) ==
    [pc |-> "start", exists |-> exists, created |-> FALSE,
     entries |-> entries, scanned |-> 0,
     plugins |-> <<>>, attempts |-> <<>>, on_load |-> <<>>]

\* the loader after the scan of an empty directory
Booted == [NewLoader(TRUE, <<>>) EXCEPT !.pc = "done"]

\* ------------------------------------------------------------------ state after construction
Init ==
    /\ pending = 0
    /\ unique_id = SERVER + 1
    /\ registered = {}
    /\ clients = {}
    /\ players = {}
    /\ conn = <<>>
    /\ mon = <<>>
    /\ rpc = "poll"
    /\ cur = SERVER
    /\ drained = 0
    /\ boot = Booted
    /\ hist = <<>>

\* ------------------------------------------------------------------ Client
\* Client::new(id, connection, addr, keep_alive.0.into())
NewClient ==
    [connection_state |-> "HandShake",
     closed |-> FALSE,
     make_player |-> FALSE,
     last_alive_received |-> 0,
     keep_alive |-> <<>>]

\* the task spawned for the client: about to await the interval's first tick,
\* which completes at once
NewMonitor == [pc |-> "tick", deadline |-> 0, now |-> 0, random |-> 0]

\* acked: when the monitor last received a matching echo; nonlive: when it
\* last saw the connection outside Play; prompt: every probe so far was
\* echoed, alone, within its second
NewHist ==
    [acked |-> Never, nonlive |-> Never, prompt |-> TRUE,
     deregistered |-> 0, promoted |-> 0]

\* client.poll(event): socket I/O; a failed or ended read closes the client
ClientPoll(c, fails) == [c EXCEPT !.closed = c.closed \/ fails]

\* process_packets(&server): the packets read are handled; a handler may move
\* the protocol state, close the client, ask for promotion, and hand an echoed
\* keep-alive id to the monitor's channel
ProcessPackets(c, st, closes, promotes, echo) ==
    [c EXCEPT !.connection_state = st,
              !.closed = c.closed \/ closes,
              !.make_player = c.make_player \/ promotes,
              !.keep_alive = IF echo \in Ids THEN Append(c.keep_alive, echo)
                             ELSE c.keep_alive]

\* ------------------------------------------------------------------ time
\* an instant one second later
Older(a) == IF a >= MaxAge THEN a ELSE a + 1

\* ------------------------------------------------------------------ keep-alive monitor
Running == rpc # "terminated"

\* a deadline check that always finds the connection stale
TimedOutAlways(now, last) == TRUE

\* now.duration_since(client.last_alive_received.load()) >= Duration::from_secs(15)
TimedOut(now, last) == last - now >= KeepAliveTimeout

\* a monitor that takes any id for the echo
AfterReplyAny(c, id, random, now) ==
    [c EXCEPT !.last_alive_received = now, !.keep_alive = Tail(c.keep_alive)]

\* a monitor that takes the echo and does not record it
AfterReplyDrops(c, id, random, now) ==
    [c EXCEPT !.keep_alive = Tail(c.keep_alive)]

\* if id == random { client.last_alive_received.store(now) }
AfterReply(c, id, random, now) ==
    IF id = random THEN [c EXCEPT !.last_alive_received = now,
                                  !.keep_alive = Tail(c.keep_alive)]
    ELSE [c EXCEPT !.keep_alive = Tail(c.keep_alive)]

\* a monitor that leaves the timestamp alone outside Play
NonLiveKeeps(c, now) == c

\* } else { client.last_alive_received.store(now) }
NonLive(c, now) == [c EXCEPT !.last_alive_received = now]

\* client.kick("No keep alive received")
Kick(c) == [c EXCEPT !.closed = TRUE]

\* the task can run now: its interval deadline is reached, or a value waits in
\* the channel it is receiving from
Ready(t) ==
    \/ mon[t].pc = "tick" /\ mon[t].deadline >= 0
    \/ mon[t].pc = "recv" /\ conn[t].keep_alive # <<>>

\* One pass of the task's loop from interval.tick().await to its next await;
\* the interval's next deadline is one period after the one just reached
MonitorTick(t) ==
    /\ Running
    /\ t \in Accepted
    /\ mon[t].pc = "tick"
    /\ mon[t].deadline >= 0
    /\ LET c == conn[t]
           now == 0
       IN  IF c.connection_state = "Play"
           THEN IF TimedOut(now, c.last_alive_received)
                THEN /\ conn' = [conn EXCEPT ![t] = Kick(c)]
                     /\ mon' = [mon EXCEPT ![t] = [pc |-> "done", deadline |-> 0,
                                                   now |-> 0, random |-> 0]]
                     /\ hist' = hist
                ELSE /\ \E random \in Ids :
                           mon' = [mon EXCEPT ![t] =
                                      [pc |-> "recv",
                                       deadline |-> mon[t].deadline - Period,
                                       now |-> now, random |-> random]]
                     /\ conn' = conn
                     /\ hist' = hist
           ELSE /\ conn' = [conn EXCEPT ![t] = NonLive(c, now)]
                /\ mon' = [mon EXCEPT ![t].deadline = @ - Period]
                /\ hist' = [hist EXCEPT ![t].nonlive = now]
    /\ UNCHANGED <<pending, unique_id, registered, clients, players,
                   rpc, cur, drained, boot>>

\* receiver.recv().await completes with the oldest value in the channel
MonitorRecv(t) ==
    /\ Running
    /\ t \in Accepted
    /\ mon[t].pc = "recv"
    /\ conn[t].keep_alive # <<>>
    /\ LET id == Head(conn[t].keep_alive)
       IN  /\ conn' = [conn EXCEPT ![t] =
                          AfterReply(conn[t], id, mon[t].random, mon[t].now)]
           /\ hist' = [hist EXCEPT ![t].acked =
                          IF id = mon[t].random THEN 0 ELSE @]
    /\ mon' = [mon EXCEPT ![t] = [pc |-> "tick", deadline |-> @.deadline,
                                  now |-> 0, random |-> 0]]
    /\ UNCHANGED <<pending, unique_id, registered, clients, players,
                   rpc, cur, drained, boot>>

\* One second passes: every instant is one second older.  A monitor still
\* waiting for its echo has not had it within the second.
Elapse ==
    /\ Running
    /\ \A t \in Accepted : ~Ready(t)
    /\ conn' = [t \in Accepted |->
                   [conn[t] EXCEPT !.last_alive_received = Older(@)]]
    /\ mon' = [t \in Accepted |->
                  CASE mon[t].pc = "tick" ->
                          [mon[t] EXCEPT !.deadline = @ + 1]
                    [] mon[t].pc = "recv" ->
                          [mon[t] EXCEPT
                              !.deadline = IF @ < MaxLag THEN @ + 1 ELSE @,
                              !.now = Older(@)]
                    [] OTHER -> mon[t]]
    /\ hist' = [t \in Accepted |->
                   [hist[t] EXCEPT !.acked = Older(@),
                                   !.nonlive = Older(@),
                                   !.prompt = @ /\ mon[t].pc # "recv"]]
    /\ UNCHANGED <<pending, unique_id, registered, clients, players,
                   rpc, cur, drained, boot>>

\* ------------------------------------------------------------------ reactor: poll
\* a peer connects: one more connection in the listener's backlog
Arrive(limit) ==
    /\ Running
    /\ (unique_id - (SERVER + 1)) + pending < limit
    /\ pending' = pending + 1
    /\ UNCHANGED <<unique_id, registered, clients, players, conn, mon,
                   rpc, cur, drained, boot, hist>>

\* return Err(e) out of the loop: main returns and the process ends, its
\* sockets, maps and tasks with it
Exit ==
    /\ rpc' = "terminated"
    /\ pending' = 0
    /\ unique_id' = SERVER + 1
    /\ registered' = {}
    /\ clients' = {}
    /\ players' = {}
    /\ conn' = <<>>
    /\ mon' = <<>>
    /\ cur' = SERVER
    /\ drained' = 0
    /\ boot' = boot
    /\ hist' = <<>>

\* poll.poll fails: if interrupted(&err) { continue } return Err(err)
PollFails(isInterrupted) ==
    /\ rpc = "poll"
    /\ IF isInterrupted THEN UNCHANGED vars ELSE Exit

\* ------------------------------------------------------------------ reactor: accept loop
\* the reactor is at listener.accept(): inside the accept loop, or at an
\* event for SERVER that poll.poll has just returned
AtAccept == rpc \in {"poll", "accept"}

\* a counter that hands out the same token again
NextTokenReuses(u) == IF u >= SERVER + 2 THEN SERVER + 2 ELSE u + 1

\* unique_id += 1; let id = unique_id
NextToken(u) == u + 1

\* one accept per readiness event instead of a loop
AfterAcceptOnce == "poll"

\* s if s == SERVER => loop { .. }: after an accepted connection the loop
\* calls accept again
AfterAccept == "accept"

\* listener.accept() is Ok: the connection is registered under a fresh token,
\* its Client is built, its monitor spawned, and it is put in `clients`;
\* poll.registry().register(..)? ends the reactor when it fails
Accept(registerOk) ==
    /\ AtAccept
    /\ pending > 0
    /\ IF registerOk
       THEN LET id == NextToken(unique_id)
            IN  /\ pending' = pending - 1
                /\ unique_id' = id
                /\ registered' = registered \cup {id}
                /\ conn' = (id :> NewClient) @@ conn
                /\ mon' = (id :> NewMonitor) @@ mon
                /\ hist' = (id :> NewHist) @@ hist
                /\ clients' = clients \cup {id}
                /\ rpc' = AfterAccept
                /\ drained' = drained + 1
                /\ UNCHANGED <<players, cur, boot>>
       ELSE Exit

\* Err(e) if e.kind() == io::ErrorKind::WouldBlock => break
AcceptWouldBlock ==
    /\ AtAccept
    /\ pending = 0
    /\ rpc' = "poll"
    /\ drained' = 0
    /\ UNCHANGED <<pending, unique_id, registered, clients, players,
                   conn, mon, cur, boot, hist>>

\* Err(e) => return Err(e): any other error of accept, an interrupted one too
AcceptFails(isInterrupted) ==
    /\ AtAccept
    /\ Exit

\* ------------------------------------------------------------------ reactor: per-token dispatch
NoEcho == MaxId + 1

\* what one event brings: whether the socket I/O fails, and what the packets
\* read make the handlers do
Choices ==
    [fails : BOOLEAN, st : ConnectionStates, closes : BOOLEAN,
     promotes : BOOLEAN, echo : Ids \cup {NoEcho}]

\* the echo handed to the channel is the one the monitor is waiting for
Answers(c, m, ch) ==
    \/ ch.echo = NoEcho
    \/ m.pc = "recv" /\ c.keep_alive = <<>> /\ ch.echo = m.random

\* a teardown that leaves the socket registered
DeregisterLeaks(reg, t) == reg

\* poll.registry().deregister(&mut client.connection.lock())
Deregister(reg, t) == reg \ {t}

\* a remove that leaves the entry in the map
RemoveKeeps(map, t) == map

\* players.remove(&token.0), clients.remove(&token.0)
Remove(map, t) == map \ {t}

\* a lookup that finds an entry for every token
HasAlways(map, t) == TRUE

\* players.get_mut(&token.0), clients.get_mut(&token.0) is Some
Has(map, t) == t \in map

\* The registry and the clients as one value, r, threaded through the two
\* branches of the dispatch.
\* if let Some(player) = players.get_mut(&token.0) {
\*     player.client.poll(event).await; let closed = ...closed.load(..);
\*     if !closed { player.process_packets(&server).await }
\*     if closed { if let Some(player) = players.remove(&token.0) {
\*         player.remove().await; poll.registry().deregister(..)? } } }
PlayerBranch(r, t, ch, deregisterOk) ==
    LET polled == ClientPoll(r.conn[t], ch.fails)
        closed == polled.closed
    IN  IF ~closed
        THEN [r EXCEPT
                 !.conn[t] = ProcessPackets(polled, ch.st, ch.closes,
                                            ch.promotes, ch.echo),
                 !.hist[t].prompt = @ /\ Answers(polled, mon[t], ch)]
        ELSE [r EXCEPT
                 !.conn[t] = polled,
                 !.players = Remove(@, t),
                 !.registered = IF deregisterOk THEN Deregister(@, t) ELSE @,
                 !.hist[t].deregistered = IF deregisterOk THEN @ + 1 ELSE @,
                 !.rpc = IF deregisterOk THEN @ ELSE "terminated"]

\* what the client branch does with the two flags it read
ClientOutcome(done, make_player) ==
    IF done THEN "teardown"
    ELSE IF make_player THEN "promote"
    ELSE "none"

\* let (done, make_player) = if let Some(client) = clients.get_mut(&token.0) {
\*     client.poll(event).await; let closed = client.closed.load(..);
\*     if !closed { client.process_packets(&server).await }
\*     (closed, client.make_player.load(..)) } else { (false, false) };
\* if done || make_player { if let Some(client) = clients.remove(&token.0) {
\*     if done { poll.registry().deregister(..)? }
\*     else if make_player { server.add_player(id, client).await ...
ClientBranch(r, t, ch, deregisterOk) ==
    LET polled == ClientPoll(r.conn[t], ch.fails)
        closed == polled.closed
        after == IF ~closed
                 THEN ProcessPackets(polled, ch.st, ch.closes, ch.promotes,
                                     ch.echo)
                 ELSE polled
        outcome == ClientOutcome(closed, after.make_player)
        r1 == [r EXCEPT
                  !.conn[t] = after,
                  !.hist[t].prompt =
                      @ /\ (closed \/ Answers(polled, mon[t], ch))]
    IN  CASE outcome = "teardown" ->
                [r1 EXCEPT
                    !.clients = Remove(@, t),
                    !.registered = IF deregisterOk THEN Deregister(@, t) ELSE @,
                    !.hist[t].deregistered = IF deregisterOk THEN @ + 1 ELSE @,
                    !.rpc = IF deregisterOk THEN @ ELSE "terminated"]
          [] outcome = "promote" ->
                [r1 EXCEPT
                    !.clients = Remove(@, t),
                    !.hist[t].promoted = @ + 1,
                    !.rpc = "add_player"]
          [] OTHER -> r1

\* the events a token can get now.  An echo is handed over only while the
\* channel has room.  When the socket I/O fails or the client is closed
\* already, no packet is processed, and the rest of the choice is left at
\* "nothing happens"; a token in neither map gets that one choice too.  A
\* Player's make_player is not read again, and is left as it is.
ChoicesFor(t) ==
    {ch \in Choices :
        /\ ch.echo = NoEcho \/ Len(conn[t].keep_alive) < MaxChannel
        /\ t \notin clients => ~ch.promotes
        /\ (conn[t].closed \/ t \notin clients \cup players) => ~ch.fails
        /\ (conn[t].closed \/ ch.fails \/ t \notin clients \cup players) =>
              /\ ch.st = conn[t].connection_state
              /\ ~ch.closes
              /\ ~ch.promotes
              /\ ch.echo = NoEcho}

\* deregister is reached only by a closed client
DeregisterResults(t, ch) ==
    IF (conn[t].closed \/ ch.fails) /\ t \in clients \cup players
    THEN BOOLEAN ELSE {TRUE}

\* poll.poll returns an event for token t: token => { player branch, then
\* client branch }.  An event whose token is in neither map changes nothing.
Dispatch(t) ==
    /\ rpc = "poll"
    /\ t \in Accepted
    /\ \E ch \in ChoicesFor(t) : \E deregisterOk \in DeregisterResults(t, ch) :
          LET r0 == [conn |-> conn, clients |-> clients, players |-> players,
                     registered |-> registered, hist |-> hist, rpc |-> rpc]
              r1 == IF Has(r0.players, t)
                    THEN PlayerBranch(r0, t, ch, deregisterOk)
                    ELSE r0
              r2 == IF r1.rpc # "terminated" /\ Has(r1.clients, t)
                    THEN ClientBranch(r1, t, ch, deregisterOk)
                    ELSE r1
          IN  IF r2.rpc = "terminated"
              THEN Exit
              ELSE /\ conn' = r2.conn
                   /\ clients' = r2.clients
                   /\ players' = r2.players
                   /\ registered' = r2.registered
                   /\ hist' = r2.hist
                   /\ rpc' = r2.rpc
                   /\ cur' = IF r2.rpc = "add_player" THEN t ELSE SERVER
                   /\ UNCHANGED <<pending, unique_id, mon, drained, boot>>

\* a promotion that also puts the client back
AddPlayerPutsBack ==
    /\ rpc = "add_player"
    /\ players' = players \cup {cur}
    /\ clients' = clients \cup {cur}
    /\ cur' = SERVER
    /\ rpc' = "poll"
    /\ UNCHANGED <<pending, unique_id, registered, conn, mon, drained,
                   boot, hist>>

\* let (player, world) = server.add_player(id, client).await returns;
\* players.insert(id, player.clone()); world.spawn_player(..).await
AddPlayerDone ==
    /\ rpc = "add_player"
    /\ players' = players \cup {cur}
    /\ cur' = SERVER
    /\ rpc' = "poll"
    /\ UNCHANGED <<pending, unique_id, registered, clients, conn, mon,
                   drained, boot, hist>>

\* ------------------------------------------------------------------ plugin bootstrap
\* main before the plugin loading: the listener is bound, nothing is loaded
BootInit(directories) ==
    /\ pending = 0
    /\ unique_id = SERVER + 1
    /\ registered = {}
    /\ clients = {}
    /\ players = {}
    /\ conn = <<>>
    /\ mon = <<>>
    /\ rpc = "boot"
    /\ cur = SERVER
    /\ drained = 0
    /\ hist = <<>>
    /\ \/ boot = NewLoader(FALSE, <<>>)
       \/ \E d \in directories : boot = NewLoader(TRUE, d)

\* .expect(..) fails: the panic hook ends the process, std::process::exit(1)
Panic ==
    /\ boot' = [boot EXCEPT !.pc = "panicked"]
    /\ rpc' = "terminated"
    /\ pending' = 0
    /\ UNCHANGED <<unique_id, registered, clients, players, conn, mon, cur,
                   drained, hist>>

\* the loader takes a step, the reactor has not started
Loading == UNCHANGED <<pending, unique_id, registered, clients, players,
                       conn, mon, rpc, cur, drained, hist>>

\* a loader that goes on without creating the directory
create_dir_skipped(b) == b

\* fs::create_dir_all(path) succeeds
create_dir_all(b) == [b EXCEPT !.exists = TRUE, !.created = TRUE]

\* if !path.exists() { fs::create_dir_all(path).expect(..) }
EnsureDir(createOk) ==
    /\ rpc = "boot"
    /\ boot.pc = "start"
    /\ boot.exists => createOk
    /\ IF boot.exists \/ createOk
       THEN /\ boot' = [(IF boot.exists THEN boot ELSE create_dir_all(boot))
                          EXCEPT !.pc = "read"]
            /\ Loading
       ELSE Panic

\* fs::read_dir(path).expect("Failed to read directory")
ReadDir(readOk) ==
    /\ rpc = "boot"
    /\ boot.pc = "read"
    /\ IF readOk
       THEN /\ boot' = [boot EXCEPT !.pc = "scan"]
            /\ Loading
       ELSE Panic

\* a loader that keeps the plugin without initializing it
load_plugin_silent(b, path) ==
    [b EXCEPT !.attempts = Append(@, path),
              !.plugins = Append(@, path)]

\* pub fn load_plugin(&mut self, path), when the library loads and has its
\* entry point: plugin.on_load(); self.plugins.push(plugin)
load_plugin(b, path) ==
    [b EXCEPT !.attempts = Append(@, path),
              !.on_load = Append(@, path),
              !.plugins = Append(@, path)]

\* one pass of for entry in fs::read_dir(path): entry.expect(..);
\* if self.is_valid_plugin(&path) { self.load_plugin(path.as_os_str()) }
\* Library::new(path).expect(..) and lib.get(b"plugin_entry_point").expect(..)
\* fail when loadOk is false
ScanEntry(entryOk, loadOk) ==
    /\ rpc = "boot"
    /\ boot.pc = "scan"
    /\ boot.scanned < Len(boot.entries)
    /\ LET path == boot.entries[boot.scanned + 1]
           next == [boot EXCEPT !.scanned = @ + 1]
       IN  /\ (~entryOk \/ ~is_valid_plugin(path)) => loadOk
           /\ IF ~entryOk
              THEN Panic
              ELSE IF ~is_valid_plugin(path)
              THEN boot' = next /\ Loading
              ELSE IF loadOk
              THEN boot' = load_plugin(next, path) /\ Loading
              ELSE /\ boot' = [boot EXCEPT !.pc = "panicked",
                                           !.attempts = Append(@, path)]
                   /\ rpc' = "terminated"
                   /\ pending' = 0
                   /\ UNCHANGED <<unique_id, registered, clients, players,
                                  conn, mon, cur, drained, hist>>

\* the scan is over: main goes on to the reactor loop
ScanDone ==
    /\ rpc = "boot"
    /\ boot.pc = "scan"
    /\ boot.scanned = Len(boot.entries)
    /\ boot' = [boot EXCEPT !.pc = "done"]
    /\ rpc' = "poll"
    /\ UNCHANGED <<pending, unique_id, registered, clients, players,
                   conn, mon, cur, drained, hist>>

Bootstrap ==
    \/ \E createOk \in BOOLEAN : EnsureDir(createOk)
    \/ \E readOk \in BOOLEAN : ReadDir(readOk)
    \/ \E entryOk, loadOk \in BOOLEAN : ScanEntry(entryOk, loadOk)
    \/ ScanDone

\* ------------------------------------------------------------------ specifications
Tokens == (SERVER + 2) .. (SERVER + 1 + MaxConns)

Reactor ==
    \/ \E isInterrupted \in BOOLEAN : PollFails(isInterrupted)
    \/ \E registerOk \in BOOLEAN : Accept(registerOk)
    \/ AcceptWouldBlock
    \/ \E isInterrupted \in BOOLEAN : AcceptFails(isInterrupted)
    \/ \E t \in Tokens : Dispatch(t)
    \/ AddPlayerDone

Monitors ==
    \/ \E t \in Tokens : MonitorTick(t)
    \/ \E t \in Tokens : MonitorRecv(t)

\* the whole server with a few connections, within one second
Next ==
    \/ Reactor
    \/ Monitors
    \/ Arrive(MaxConns)

Spec == Init /\ [][Next]_vars

\* one connection, for as long as it lasts
NextKeepAlive ==
    \/ Reactor
    \/ Monitors
    \/ Arrive(1)
    \/ Elapse

KeepAliveSpec == Init /\ [][NextKeepAlive]_vars

\* the plugin loader over every small directory
PluginSpec == BootInit(Directories(EntryNames, MaxEntries)) /\ [][Bootstrap]_vars

\* names of the directories main is started with
BootNames == {<<"txt", Dot, "so">>, <<"txt", Dot, "dll">>, <<Dot, "plugin">>}

\* main from the plugin loading on, with one connection
NextBoot ==
    \/ Bootstrap
    \/ Reactor
    \/ Monitors
    \/ Arrive(1)

BootSpec == BootInit(Directories(BootNames, MaxEntries)) /\ [][NextBoot]_vars

\* the reactor keeps taking steps while it can: poll.poll keeps returning
FairSpec == Spec /\ WF_vars(Reactor)

\* the monitor tasks keep being scheduled, and time keeps passing
FairKeepAliveSpec == KeepAliveSpec /\ WF_vars(Monitors) /\ WF_vars(Elapse)

\* ------------------------------------------------------------------ properties
\* the step is the reactor handling a readiness event for token t
Handles(t) == t \in Accepted /\ Dispatch(t) /\ Running'

\* the step is the accept loop taking a connection from the backlog
Accepts == Running' /\ pending' < pending

\* C1: in a reactor tick for a token in `clients` after which both its
\* `closed` and its `make_player` flag are true (packet processing in that
\* tick may have set them), the connection is torn down: it leaves `clients`,
\* its socket is deregistered, and no player construction is started for it.
C1_TeardownPrecedence ==
    [][\A t \in Tokens :
          (/\ Handles(t)
           /\ t \in clients
           /\ conn'[t].closed
           /\ conn'[t].make_player)
          => (/\ t \notin clients'
              /\ t \notin registered'
              /\ t \notin players'
              /\ rpc' # "add_player"
              /\ hist'[t].promoted = hist[t].promoted)]_vars

\* C4: no token is a key of both `clients` and `players`.
C4_RegistryDisjoint == clients \cap players = {}

\* C4 witness: one connection promoted to a Player, another still a Client
C4_Witness == players # {} /\ clients # {}

C9_AcceptDrains ==
    [][/\ (rpc = "accept" /\ rpc' # "accept" /\ Running') =>
              (pending = 0 /\ rpc' = "poll" /\ UNCHANGED <<clients, registered>>)
       /\ Accepts =>
              LET id == unique_id'
              IN  /\ id = unique_id + 1
                  /\ id \in registered'
                  /\ id \in clients'
                  /\ id \in DOMAIN mon' /\ mon'[id].pc = "tick"
                  /\ rpc' = "accept"]_vars

\* C9 witness: two connections were pending, and one pass of the loop has
\* taken both
C9_Witness == rpc = "accept" /\ drained = 2 /\ pending = 0

\* C10: the token given to an accepted connection is greater than the
\* listener's token and greater than every token given before, so no token is
\* given twice, whether or not the earlier connection is still registered.
C10_TokensUnique ==
    [][Accepts =>
          LET id == unique_id'
          IN  /\ id > SERVER
              /\ id \notin Accepted
              /\ \A u \in Accepted : u < id
              /\ Accepted' = Accepted \cup {id}]_vars

\* C10 witness: a second connection is accepted after the first was torn down
C10_Witness ==
    /\ Cardinality(Accepted) = 2
    /\ \E t \in Accepted : t \notin registered /\ hist[t].deregistered = 1

\* the step is the monitor of t giving up on its connection
TimesOut(t) == t \in Accepted /\ MonitorTick(t) /\ mon'[t].pc = "done"

\* C2: a connection in Play that has been silent for 15 seconds, with no
\* echo delivered to the monitor's channel, is eventually marked closed
\* (unless an echo is delivered, it leaves Play, or the server ends first).
C2_TimeoutFires ==
    \A t \in Tokens :
        (/\ t \in Accepted
         /\ conn[t].connection_state = "Play"
         /\ conn[t].keep_alive = <<>>
         /\ conn[t].last_alive_received >= KeepAliveTimeout
         /\ ~conn[t].closed)
        ~> (\/ t \notin Accepted
            \/ conn[t].closed
            \/ conn[t].keep_alive # <<>>
            \/ conn[t].connection_state # "Play")

\* C3: when the monitor marks a connection closed for timeout, at least 15
\* seconds have passed since it last received a matching echo and since it
\* last saw the connection outside Play.
C3_NeverEarly ==
    [][\A t \in Tokens :
          TimesOut(t) =>
              /\ hist[t].acked >= KeepAliveTimeout
              /\ hist[t].nonlive >= KeepAliveTimeout]_vars

\* C6: a registered connection whose `closed` flag is true is eventually
\* deregistered, while the reactor keeps handling readiness events.
C6_TeardownFollows ==
    \A t \in Tokens :
        (t \in Accepted /\ conn[t].closed /\ t \in registered)
        ~> (t \notin Accepted \/ t \notin registered)

\* C7: a connection whose every probe was echoed with the probe's id before
\* the next second, and that got no other echo, is never marked closed for
\* timeout.
C7_NoFalsePositive ==
    \A t \in Accepted : hist[t].prompt => mon[t].pc # "done"

\* C7 witness: a connection seen in Play by every tick of the last 15
\* seconds, every probe echoed in time, the last echo within the last second,
\* and not closed
C7_Witness ==
    \E t \in Accepted :
        /\ hist[t].prompt
        /\ conn[t].connection_state = "Play"
        /\ hist[t].nonlive >= KeepAliveTimeout
        /\ hist[t].nonlive <= MaxAge
        /\ hist[t].acked <= Period
        /\ ~conn[t].closed
        /\ mon[t].pc = "tick"

\* C8: a monitor tick that finds the connection outside Play does not close
\* it and does not end the monitor, whatever the age of the timestamp; it sets
\* last_alive_received to the time of the tick.
C8_NonLiveExempt ==
    [][\A t \in Tokens :
          (/\ t \in Accepted
           /\ MonitorTick(t)
           /\ conn[t].connection_state # "Play")
          => (/\ conn'[t].closed = conn[t].closed
              /\ mon'[t].pc = "tick"
              /\ conn'[t].last_alive_received = 0)]_vars

\* C8 witness: outside Play with a timestamp 15 seconds old, at a tick, not
\* closed
C8_Witness ==
    \E t \in Accepted :
        /\ conn[t].connection_state # "Play"
        /\ conn[t].last_alive_received >= KeepAliveTimeout
        /\ mon[t].pc = "tick"
        /\ mon[t].deadline >= 0
        /\ ~conn[t].closed

\* C11: a token enters `clients` only when it is accepted, as a token never
\* given before; it enters `players` only from `clients`, by the one promotion
\* of its connection; no step takes a token from `players` into `clients`.
C11_OneWayPromotion ==
    [][\A t \in Tokens :
          /\ (t \in clients' /\ t \notin clients) =>
                (t \notin Accepted /\ Accepts /\ t = unique_id')
          /\ (t \in players' /\ t \notin players) =>
                (/\ rpc = "add_player" /\ cur = t
                 /\ hist[t].promoted = 1
                 /\ t \notin clients')
          /\ (t \in Accepted /\ Running') => hist'[t].promoted <= 1]_vars

\* C11 witness: a promoted connection, its make_player flag still set, gets a
\* later event that its packets answer with an echo
C11_Witness ==
    \E t \in players :
        /\ hist[t].promoted = 1
        /\ conn[t].make_player
        /\ conn[t].keep_alive # <<>>
        /\ t \notin clients

\* C12: a connection's socket is deregistered at most once and player
\* construction is requested for it at most once; an event for a token that
\* is in neither map changes nothing: no deregistration, no promotion, no
\* packet processing.
C12_ExactlyOnce ==
    [][\A t \in Tokens :
          Handles(t) =>
              /\ hist'[t].deregistered <= 1
              /\ hist'[t].promoted <= 1
              /\ (t \notin clients \cup players) =>
                    UNCHANGED <<conn, registered, clients, players, hist, rpc>>]_vars

\* C12 witness: a connection that was promoted and later torn down as a
\* Player, while another connection is still served
C12_Witness ==
    \E t \in Accepted :
        /\ hist[t].promoted = 1
        /\ hist[t].deregistered = 1
        /\ t \notin registered
        /\ t \notin clients \cup players
        /\ rpc = "poll"
        /\ clients \cup players # {}

\* C13: at every point of the scan, the entries handed to load_plugin are
\* exactly the entries read so far whose name is a non-empty stem, a dot, and
\* one of so, dll, dylib, plugin, in the order read (the last of them may be
\* the one whose load ended the process).
C13_ExtensionFilter ==
    LET Named(name) ==
            /\ Len(name) >= 3
            /\ name[Len(name) - 1] = Dot
            /\ name[Len(name)] \in {"so", "dll", "dylib", "plugin"}
        read == SubSeq(boot.entries, 1, boot.scanned)
        due == SelectSeq(read, Named)
    IN  \/ boot.attempts = due
        \/ /\ boot.pc = "panicked"
           /\ boot.scanned < Len(boot.entries)
           /\ Named(boot.entries[boot.scanned + 1])
           /\ boot.attempts = Append(due, boot.entries[boot.scanned + 1])

\* C13 witness: a finished scan of two entries, one loaded, the other a
\* name that ends in a recognized word and is not a plugin
C13_Witness ==
    /\ boot.pc = "done"
    /\ Len(boot.entries) = 2
    /\ Len(boot.attempts) = 1
    /\ \E i \in 1 .. 2 :
          /\ boot.entries[i] # boot.attempts[1]
          /\ boot.entries[i][Len(boot.entries[i])] \in Recognized

\* the loader was called with a path that did not exist
WasMissing == ~boot.exists \/ boot.created

C15_PlayerClosedAfterProcessing ==
    [][\A t \in Tokens :
          (/\ Handles(t)
           /\ t \in players
           /\ conn'[t].closed)
          => (/\ t \notin players'
              /\ t \notin registered'
              /\ hist'[t].deregistered = hist[t].deregistered + 1)]_vars

\* C16: no second passes while the monitor of a connection in Play, under
\* its deadline, still waits for the echo of a probe after its next tick has
\* come due: the monitor takes each tick when it is due.
C16_WaitWithinTick ==
    [][\A t \in Tokens :
          (/\ t \in Accepted
           /\ conn[t].connection_state = "Play"
           /\ conn[t].last_alive_received < KeepAliveTimeout
           /\ mon[t].pc = "recv"
           /\ mon[t].deadline >= 0)
          => ~Elapse]_vars

\* C17: a poll, or an accept inside the accept loop, that fails with an
\* interrupted error leaves the reactor running, with every pending
\* connection still to be accepted.
C17_InterruptedRetried ==
    [][(PollFails(TRUE) \/ (rpc = "accept" /\ AcceptFails(TRUE))) =>
          (Running' /\ pending' = pending /\ clients' = clients)]_vars

\* C18: when the monitor takes an id from its channel, last_alive_received
\* becomes the time of the tick that sent the probe if the id is the probe's,
\* and stays as it was otherwise, and the connection is not closed by that
\* step; a tick in Play that finds the timestamp 15 seconds old closes the
\* connection and ends the monitor.
C18_OnlyMatchingEcho ==
    [][\A t \in Tokens :
          /\ (t \in Accepted /\ MonitorRecv(t)) =>
                /\ conn'[t].last_alive_received =
                      IF Head(conn[t].keep_alive) = mon[t].random
                      THEN mon[t].now
                      ELSE conn[t].last_alive_received
                /\ conn'[t].closed = conn[t].closed
          /\ (/\ t \in Accepted
              /\ MonitorTick(t)
              /\ conn[t].connection_state = "Play"
              /\ conn[t].last_alive_received >= KeepAliveTimeout) =>
                (conn'[t].closed /\ mon'[t].pc = "done")]_vars

\* C18 witness: a connection that never got a matching echo, seen in Play by
\* every tick of its last 15 seconds, is closed by its monitor
C18_Witness ==
    \E t \in Accepted :
        /\ mon[t].pc = "done"
        /\ conn[t].closed
        /\ hist[t].acked = Never
        /\ hist[t].nonlive >= KeepAliveTimeout
        /\ hist[t].nonlive <= MaxAge
        /\ t \in registered

\* C19: a monitor ends only by its own tick finding the connection in Play
\* with a timestamp 15 seconds old; a reactor step, teardown included, leaves
\* every monitor where it was.
C19_MonitorLifetime ==
    [][\A t \in Tokens :
          (t \in Accepted /\ Running') =>
              /\ (mon[t].pc # "done" /\ mon'[t].pc = "done") =>
                    /\ MonitorTick(t)
                    /\ conn[t].connection_state = "Play"
                    /\ conn[t].last_alive_received >= KeepAliveTimeout
              /\ (\E u \in Tokens : Handles(u)) => mon'[t] = mon[t]
              /\ AddPlayerDone => mon'[t] = mon[t]]_vars

\* C19 witness: the reactor has torn the connection down and its monitor
\* still waits for an echo, 15 seconds after its last probe
C19_Witness ==
    \E t \in Accepted :
        /\ t \notin registered
        /\ t \notin clients \cup players
        /\ hist[t].deregistered = 1
        /\ mon[t].pc = "recv"
        /\ mon[t].now >= KeepAliveTimeout

\* C20: once the reactor polls or accepts, the plugin directory has been
\* scanned to its end, every entry that is a plugin has been loaded and had
\* on_load called once, in the order scanned, and nothing else was loaded;
\* before the scan is over, and after a load has failed, the reactor has not
\* polled and has accepted nothing.
C20_PluginsBeforeReactor ==
    LET due == SelectSeq(boot.entries, is_valid_plugin)
    IN  /\ rpc \in {"poll", "accept", "add_player"} =>
              /\ boot.pc = "done"
              /\ boot.scanned = Len(boot.entries)
              /\ boot.on_load = due
              /\ boot.plugins = due
              /\ boot.attempts = due
        /\ boot.pc # "done" =>
              /\ rpc \in {"boot", "terminated"}
              /\ Accepted = {}
        /\ boot.pc = "panicked" => rpc = "terminated"

\* C20 witness: two plugins were loaded and the reactor has accepted a
\* connection
C20_Witness ==
    /\ Len(boot.on_load) = 2
    /\ boot.pc = "done"
    /\ Accepted # {}
    /\ rpc = "poll"

====
